---------------------------- MODULE Spec2Model ----------------------------
(***************************************************************************)
(* Rolling-origin evaluation of lab1_statistical_models/notebook_empty:    *)
(* evaluate_model (expanding-window cross-validation, Exercise 3) and      *)
(* evaluate_pasta_sales_model (single temporal split, Exercises 8-9).      *)
(*                                                                         *)
(* A series is a sequence of integers indexed by position 1..N (its time   *)
(* index); NaN marks a missing observation.  Metric values are exact       *)
(* fractions <<numerator, denominator>> in lowest terms.                   *)
(***************************************************************************)
EXTENDS Integers, Sequences, FiniteSets, TLC

VARIABLES
    pc,                 \* phase of the running cell / function
    model,              \* the forecaster passed in
    data,               \* evaluate_model: data; pasta: df (the target y)
    horizon,            \* evaluate_model: horizon
    plot_forecasts,     \* flag
    analyze_residuals,  \* flag
    folds,              \* the folds of cv, in the order the splitter yields them
    results,            \* rows of the results DataFrame of evaluate(), one per fold
    mae,                \* the MAE that is printed
    mase,               \* the MASE that is printed
    y_pred,             \* concatenated predictions: sequence of [idx, val]
    y_true,             \* actual values at y_pred.index, <<>> while unbound
    residuals,          \* y_true - y_pred, <<>> while not computed
    err,                \* the exception that ended the run, "" if none
    num_promos,         \* pasta: the num_promos column as read from the file
    X,                  \* pasta: exogenous variable made from num_promos
    test_start,         \* pasta: position of 2018-01-01 in the index
    y_train,            \* pasta
    y_test,             \* pasta
    X_train,            \* pasta, <<>> if None
    X_test              \* pasta, <<>> if None

vars == <<pc, model, data, horizon, plot_forecasts, analyze_residuals, folds,
          results, mae, mase, y_pred, y_true, residuals, err,
          num_promos, X, test_start, y_train, y_test, X_train, X_test>>

pastaVars == <<num_promos, X, test_start, y_train, y_test, X_train, X_test>>

-----------------------------------------------------------------------------
(* Bounds of the model *)

MaxLen == 11
MaxH == 2
TailLen == 3
MaxScale == 2
MaxPastaLen == 4

\* observation values of the generated series, and the values an opaque
\* (ETS / ARIMA) forecaster may predict
Values == {1, 2}
PredValues == {1, 2}

\* a missing observation
NaN == -1

-----------------------------------------------------------------------------
(* Exact fractions *)

RECURSIVE GCD(_, _)
GCD(a, b) == IF b = 0 THEN a ELSE GCD(b, a % b)

Abs(x) == IF x < 0 THEN -x ELSE x

\* the float NaN of a metric (mean of nothing)
NaNq == <<0, 0>>

Rat(n, d) ==
    LET g == GCD(Abs(n), Abs(d))
    IN  IF d = 0 THEN NaNq
        ELSE IF d < 0 THEN <<(-n) \div g, (-d) \div g>>
        ELSE <<n \div g, d \div g>>

Zero == <<0, 1>>
RInt(n) == <<n, 1>>
RAdd(a, b) == Rat(a[1] * b[2] + b[1] * a[2], a[2] * b[2])
RSub(a, b) == Rat(a[1] * b[2] - b[1] * a[2], a[2] * b[2])
RAbs(a) == <<Abs(a[1]), a[2]>>
RDiv(a, b) == Rat(a[1] * b[2], a[2] * b[1])
RScale(a, c) == Rat(a[1] * c, a[2])
RLess(a, b) == a[1] * b[2] < b[1] * a[2]

RECURSIVE RSum(_)
RSum(s) == IF s = <<>> THEN Zero ELSE RAdd(Head(s), RSum(Tail(s)))

\* Series.sum() taken for the mean
RMeanAsSum(s) ==
    LET t == SelectSeq(s, LAMBDA q : q # NaNq)
    IN  IF t = <<>> THEN NaNq ELSE RSum(t)

\* Series.mean() with skipna=True: NaN entries are left out, nothing left is NaN
RMean(s) ==
    LET t == SelectSeq(s, LAMBDA q : q # NaNq)
    IN  IF t = <<>> THEN NaNq ELSE RDiv(RSum(t), RInt(Len(t)))

RECURSIVE SumInts(_)
SumInts(s) == IF s = <<>> THEN 0 ELSE Head(s) + SumInts(Tail(s))

-----------------------------------------------------------------------------
(* The expanding-window splitter *)

\* rounding the 80% cutoff up instead of down
InitialWindowCeil(n) == (4 * n + 4) \div 5

\* int(0.8 * len(data)): the 80% cutoff where testing starts
InitialWindow(n) == (4 * n) \div 5

\* one fold: train is positions 1..train_end, test the next H positions
Fold(te, H) == [train_end |-> te, test_lo |-> te + 1, test_hi |-> te + H]

\* folds with step 1 from train_end = te on, while the whole test window
\* lies inside the series
RECURSIVE SplitFrom(_, _, _)
RECURSIVE SplitFromStep2(_, _, _)

\* the same with step 2
SplitFromStep2(te, n, H) ==
    IF te + H > n THEN <<>>
    ELSE <<Fold(te, H)>> \o SplitFromStep2(te + 2, n, H)

SplitFrom(te, n, H) ==
    IF te + H > n THEN <<>>
    ELSE <<Fold(te, H)>> \o SplitFrom(te + 1, n, H)

ExpandingWindowSplitter(n, H) == SplitFrom(InitialWindow(n), n, H)

-----------------------------------------------------------------------------
(* Forecasters *)

\* the baselines of Exercise 3 and an opaque fitted model (ETS, ARIMA, ...)
Models == {"last", "mean", "opaque"}

\* the models of Exercise 10: the same, and one with exogenous regressors
PastaModels == Models \cup {"arimax"}

\* what an opaque model may forecast for H steps; a baseline takes no choice
Choices(m, H) ==
    IF m \in {"opaque", "arimax"} THEN [1..H -> PredValues]
    ELSE {[i \in 1..H |-> 1]}

\* fit raises when there is nothing to train on or the window has a gap
FitFails(m, train) ==
    \/ train = <<>>
    \/ \E i \in 1..Len(train) : train[i] = NaN

\* how a fit may end (TRUE: it raises): a baseline fails only on a window it
\* cannot use, the iterative fit of an opaque model may also not converge
FitOutcomes(m, train) ==
    IF FitFails(m, train) THEN {TRUE}
    ELSE IF m = "opaque" THEN BOOLEAN
    ELSE {FALSE}

\* a last-value baseline that copies the first value of the window
ForecastFirst(m, train, H, choice) ==
    [i \in 1..H |->
        IF m = "last" THEN RInt(train[1])
        ELSE IF m = "mean" THEN Rat(SumInts(train), Len(train))
        ELSE RInt(choice[i])]

\* the H forecasts of model m fitted on train
Forecast(m, train, H, choice) ==
    [i \in 1..H |->
        IF m = "last" THEN RInt(train[Len(train)])
        ELSE IF m = "mean" THEN Rat(SumInts(train), Len(train))
        ELSE RInt(choice[i])]

-----------------------------------------------------------------------------
(* Metrics *)

\* errors without the absolute value
SignedErrors(yt, yp) == [i \in 1..Len(yp) |-> RSub(RInt(yt[i]), yp[i])]

\* |y_true - y_pred| pointwise
AbsErrors(yt, yp) == [i \in 1..Len(yp) |-> RAbs(RSub(RInt(yt[i]), yp[i]))]

\* MeanAbsoluteError of one test window
MeanAbsoluteError(yt, yp) == RDiv(RSum(AbsErrors(yt, yp)), RInt(Len(yp)))

\* mean absolute first difference of the training series: the MAE of the
\* naive one-step forecast on it; NaN when there is no difference to take
NaiveScale(train) ==
    IF Len(train) < 2 THEN NaNq
    ELSE Rat(SumInts([i \in 1..(Len(train) - 1) |-> Abs(train[i + 1] - train[i])]),
             Len(train) - 1)

\* A scaled error is <<fin, eps>>, standing for fin + eps / EPS, where EPS is
\* the machine epsilon the library puts in place of a zero scale.
SNaN == <<NaNq, NaNq>>
SZero == <<Zero, Zero>>

\* an error that is not divided by the scale
UnscaledError(yt, yp, train) ==
    IF NaiveScale(train) = NaNq THEN SNaN
    ELSE <<MeanAbsoluteError(yt, yp), Zero>>

\* the scale denominator is max(scale, EPS)
MeanAbsoluteScaledError(yt, yp, train) ==
    LET m == MeanAbsoluteError(yt, yp)
        s == NaiveScale(train)
    IN  IF s = NaNq THEN SNaN
        ELSE IF s = Zero THEN <<Zero, m>>
        ELSE <<RDiv(m, s), Zero>>

\* mean of a column of scaled errors, NaN rows left out
SMean(col) ==
    LET t == SelectSeq(col, LAMBDA q : q # SNaN)
    IN  IF t = <<>> THEN SNaN
        ELSE <<RMean([i \in 1..Len(t) |-> t[i][1]]),
               RMean([i \in 1..Len(t) |-> t[i][2]])>>

-----------------------------------------------------------------------------
(* evaluate(): one row of the results DataFrame per fold *)

TrainOf(d, f) == SubSeq(d, 1, f.train_end)
TestOf(d, f) == SubSeq(d, f.test_lo, f.test_hi)

\* the row of fold f: its predictions at the test index and its two metrics
Row(d, f, yp) ==
    [train_end |-> f.train_end,
     failed    |-> FALSE,
     y_pred    |-> [i \in 1..Len(yp) |-> [idx |-> f.test_lo + i - 1, val |-> yp[i]]],
     mae       |-> MeanAbsoluteError(TestOf(d, f), yp),
     mase      |-> MeanAbsoluteScaledError(TestOf(d, f), yp, TrainOf(d, f))]

\* the row of a fold whose fit raised, with error_score left at its default:
\* a FitFailedWarning names the split, the scores are NaN and y_pred is NA
FailedRow(f) ==
    [train_end |-> f.train_end,
     failed    |-> TRUE,
     y_pred    |-> <<>>,
     mae       |-> NaNq,
     mase      |-> SNaN]

AnyFailed(rs) == \E k \in 1..Len(rs) : rs[k].failed

Column(rs, name) == [i \in 1..Len(rs) |-> rs[i][name]]

\* pd.concat(results["y_pred"].values): the rows' predictions one after another
RECURSIVE Concat(_)
Concat(ss) == IF ss = <<>> THEN <<>> ELSE Head(ss) \o Concat(Tail(ss))

\* data[y_pred.index]
AtIndex(d, yp) == [i \in 1..Len(yp) |-> d[yp[i].idx]]

-----------------------------------------------------------------------------
(* Inputs *)

\* series of length n: a flat or zigzag history followed by TailLen free values
SeriesOfLen(n) ==
    { [i \in 1..n |-> IF i > n - TailLen THEN t[i - (n - TailLen)]
                      ELSE 1 + s * (i % 2)] :
        s \in {0, 1}, t \in [1..TailLen -> Values] }

\* the end-to-end scenario of the evaluation: 1, 2, ..., 10
ScenarioSeries == [i \in 1..10 |-> i]

Series == UNION { SeriesOfLen(n) : n \in 1..MaxLen } \cup {ScenarioSeries}

-----------------------------------------------------------------------------
(* evaluate_model *)

Init ==
    /\ pc = "Initialized"
    /\ model \in Models
    /\ data \in Series
    /\ horizon \in 1..MaxH
    /\ plot_forecasts \in BOOLEAN
    /\ analyze_residuals \in BOOLEAN
    /\ folds = <<>>
    /\ results = <<>>
    /\ mae = NaNq
    /\ mase = SNaN
    /\ y_pred = <<>>
    /\ y_true = <<>>
    /\ residuals = <<>>
    /\ err = ""
    /\ num_promos = <<>>
    /\ X = <<>>
    /\ test_start = 0
    /\ y_train = <<>>
    /\ y_test = <<>>
    /\ X_train = <<>>
    /\ X_test = <<>>

\* cv = ExpandingWindowSplitter(...) starting to test at 80% of the data
CreateSplitter ==
    /\ pc = "Initialized"
    /\ folds' = ExpandingWindowSplitter(Len(data), horizon)
    /\ pc' = "Splitting"
    /\ UNCHANGED <<model, data, horizon, plot_forecasts, analyze_residuals,
                   results, mae, mase, y_pred, y_true, residuals, err>>
    /\ UNCHANGED pastaVars

\* evaluate(): fit on the next fold's train window, predict its test window
FitPredictFold ==
    /\ pc \in {"Splitting", "PerFoldFitPredict"}
    /\ Len(results) < Len(folds)
    /\ LET f == folds[Len(results) + 1]
           train == TrainOf(data, f)
       IN  \E raises \in FitOutcomes(model, train) :
             IF raises
             THEN results' = Append(results, FailedRow(f))
             ELSE \E choice \in Choices(model, horizon) :
                     results' = Append(results,
                                   Row(data, f, Forecast(model, train, horizon, choice)))
    /\ pc' = "PerFoldFitPredict"
    /\ UNCHANGED <<model, data, horizon, plot_forecasts, analyze_residuals,
                   folds, mae, mase, y_pred, y_true, residuals, err>>
    /\ UNCHANGED pastaVars

\* average metrics over the rows, concatenate the predictions, plot
Aggregate ==
    /\ pc \in {"Splitting", "PerFoldFitPredict"}
    /\ Len(results) = Len(folds)
    /\ mae' = RMean(Column(results, "mae"))
    /\ mase' = SMean(Column(results, "mase"))
    /\ IF results = <<>>
       THEN \* pd.concat of no objects raises
            /\ pc' = "Error"
            /\ err' = "ValueError"
            /\ UNCHANGED <<y_pred, y_true>>
       ELSE IF AnyFailed(results)
       THEN \* pd.concat of an NA among the predictions raises
            /\ pc' = "Error"
            /\ err' = "TypeError"
            /\ UNCHANGED <<y_pred, y_true>>
       ELSE /\ y_pred' = Concat(Column(results, "y_pred"))
            /\ y_true' = IF plot_forecasts THEN AtIndex(data, y_pred') ELSE y_true
            /\ pc' = "Aggregating"
            /\ UNCHANGED err
    /\ UNCHANGED <<model, data, horizon, plot_forecasts, analyze_residuals,
                   folds, results, residuals>>
    /\ UNCHANGED pastaVars

\* the residual analysis run whatever the flag says
AnalyzeResidualsAlways ==
    /\ pc = "Aggregating"
    /\ IF y_true = <<>>
       THEN /\ pc' = "Error"
            /\ err' = "NameError"
            /\ UNCHANGED residuals
       ELSE /\ residuals' = [i \in 1..Len(y_pred) |->
                                RSub(RInt(y_true[i]), y_pred[i].val)]
            /\ pc' = "ResidualAnalysis"
            /\ UNCHANGED err
    /\ UNCHANGED <<model, data, horizon, plot_forecasts, analyze_residuals,
                   folds, results, mae, mase, y_pred, y_true>>
    /\ UNCHANGED pastaVars

\* residuals y - y_hat of the aggregated predictions
AnalyzeResiduals ==
    /\ pc = "Aggregating"
    /\ analyze_residuals
    /\ IF y_true = <<>>
       THEN /\ pc' = "Error"
            /\ err' = "NameError"
            /\ UNCHANGED residuals
       ELSE /\ residuals' = [i \in 1..Len(y_pred) |->
                                RSub(RInt(y_true[i]), y_pred[i].val)]
            /\ pc' = "ResidualAnalysis"
            /\ UNCHANGED err
    /\ UNCHANGED <<model, data, horizon, plot_forecasts, analyze_residuals,
                   folds, results, mae, mase, y_pred, y_true>>
    /\ UNCHANGED pastaVars

\* the function returns
Return ==
    /\ \/ pc = "Aggregating" /\ ~analyze_residuals
       \/ pc = "ResidualAnalysis"
    /\ pc' = "Done"
    /\ UNCHANGED <<model, data, horizon, plot_forecasts, analyze_residuals,
                   folds, results, mae, mase, y_pred, y_true, residuals, err>>
    /\ UNCHANGED pastaVars

Next ==
    \/ CreateSplitter
    \/ FitPredictFold
    \/ Aggregate
    \/ AnalyzeResiduals
    \/ Return

Spec == Init /\ [][Next]_vars

-----------------------------------------------------------------------------
(* Imputation *)

HasMissing(s) == \E i \in 1..Len(s) : s[i] = NaN

\* the last observed value at or before position i, NaN if there is none
RECURSIVE LastKnown(_, _)
LastKnown(s, i) ==
    IF s[i] # NaN THEN s[i]
    ELSE IF i = 1 THEN NaN
    ELSE LastKnown(s, i - 1)

\* a forward fill that reaches one step only
FFillOneStep(s) ==
    [i \in 1..Len(s) |->
        IF s[i] # NaN \/ i = 1 THEN s[i] ELSE s[i - 1]]

\* ffill: copy the last known value into each gap
FFill(s) == [i \in 1..Len(s) |-> LastKnown(s, i)]

\* the next observed value at or after position i, NaN if there is none
RECURSIVE NextKnown(_, _)
NextKnown(s, i) ==
    IF s[i] # NaN THEN s[i]
    ELSE IF i = Len(s) THEN NaN
    ELSE NextKnown(s, i + 1)

\* an imputer that fills backwards
ImputerBackfill(s) == [i \in 1..Len(s) |-> NextKnown(s, i)]

\* Imputer(method="ffill") applied to one series
Imputer(s) == FFill(s)

\* a zero fill that also resets the entries that are present
FillZeroAll(x) == [i \in 1..Len(x) |-> 0]

\* fillna(0) on the promotion counts
FillZero(x) == [i \in 1..Len(x) |-> IF x[i] = NaN THEN 0 ELSE x[i]]

-----------------------------------------------------------------------------
(* Inputs of the pasta sales evaluation *)

\* daily sales with gaps
PastaSeries(n) == [1..n -> Values \cup {NaN}]

\* a fixed sales history of length n
PlainSeries(n) == [i \in 1..n |-> 1 + (i % 2)]

\* promotion counts with gaps
PromoValues == {NaN, 0, 1}
PromoColumns(n) == [1..n -> PromoValues]

\* the zero-fill scenario NaN, 1, NaN, 0, cut or repeated to length n
ScenarioPromos(n) ==
    [i \in 1..n |-> CASE i % 4 = 1 -> NaN
                      [] i % 4 = 2 -> 1
                      [] i % 4 = 3 -> NaN
                      [] OTHER     -> 0]

\* (y, X) as loaded in Exercise 8: every gappy sales series with the scenario
\* promotions, and every promotion column beside a fixed sales series
PastaInputs ==
    UNION { ({ <<y, ScenarioPromos(n)>> : y \in PastaSeries(n) }
             \cup { <<PlainSeries(n), x>> : x \in PromoColumns(n) }) :
            n \in 2..MaxPastaLen }

-----------------------------------------------------------------------------
(* Exercise 8 and evaluate_pasta_sales_model *)

InitPasta ==
    /\ pc = "Exercise8"
    /\ model \in PastaModels
    /\ \E in \in PastaInputs :
          /\ data = in[1]
          /\ num_promos = in[2]
          /\ test_start \in 2..Len(in[1])
    /\ horizon = 0
    /\ plot_forecasts \in BOOLEAN
    /\ analyze_residuals \in BOOLEAN
    /\ folds = <<>>
    /\ results = <<>>
    /\ mae = NaNq
    /\ mase = SNaN
    /\ y_pred = <<>>
    /\ y_true = <<>>
    /\ residuals = <<>>
    /\ err = ""
    /\ X = <<>>
    /\ y_train = <<>>
    /\ y_test = <<>>
    /\ X_train = <<>>
    /\ X_test = <<>>

evalVars == <<horizon, folds, results, y_true, num_promos>>

\* Exercise 8, steps 7-8: X is made from the num_promos column and its
\* missing values become zeros
ImputeExogenous ==
    /\ pc = "Exercise8"
    /\ X' = FillZero(num_promos)
    /\ pc' = "Initialized"
    /\ UNCHANGED <<model, data, plot_forecasts, analyze_residuals, mae, mase,
                   y_pred, residuals, err, test_start, y_train, y_test,
                   X_train, X_test>>
    /\ UNCHANGED evalVars

\* the split with the first test observation kept in the training part too
SplitYInclusive ==
    /\ pc = "Initialized"
    /\ y_train' = SubSeq(data, 1, test_start)
    /\ y_test' = SubSeq(data, test_start, Len(data))
    /\ pc' = "SplitY"
    /\ UNCHANGED <<model, data, plot_forecasts, analyze_residuals, mae, mase,
                   y_pred, residuals, err, X, test_start, X_train, X_test>>
    /\ UNCHANGED evalVars

\* y_train: the observations before 2018-01-01, y_test: those from it on
SplitY ==
    /\ pc = "Initialized"
    /\ y_train' = SubSeq(data, 1, test_start - 1)
    /\ y_test' = SubSeq(data, test_start, Len(data))
    /\ pc' = "SplitY"
    /\ UNCHANGED <<model, data, plot_forecasts, analyze_residuals, mae, mase,
                   y_pred, residuals, err, X, test_start, X_train, X_test>>
    /\ UNCHANGED evalVars

\* X is passed to the models that take exogenous regressors
PassesX(m) == m = "arimax"

\* if X is not None it is split in the same way, else both parts are None
SplitX ==
    /\ pc = "SplitY"
    /\ IF PassesX(model)
       THEN /\ X_train' = SubSeq(X, 1, test_start - 1)
            /\ X_test' = SubSeq(X, test_start, Len(X))
       ELSE /\ X_train' = <<>>
            /\ X_test' = <<>>
    /\ pc' = "SplitX"
    /\ UNCHANGED <<model, data, plot_forecasts, analyze_residuals, mae, mase,
                   y_pred, residuals, err, X, test_start, y_train, y_test>>
    /\ UNCHANGED evalVars

\* the imputation step left out
ImputeSkipped ==
    /\ pc = "SplitX"
    /\ pc' = "Imputed"
    /\ UNCHANGED <<model, data, plot_forecasts, analyze_residuals, mae, mase,
                   y_pred, residuals, err, X, test_start, X_train, X_test,
                   y_train, y_test>>
    /\ UNCHANGED evalVars

\* the imputation written through to the loaded series as well
ImputeInPlace ==
    /\ pc = "SplitX"
    /\ y_train' = Imputer(y_train)
    /\ y_test' = Imputer(y_test)
    /\ data' = y_train' \o y_test'
    /\ pc' = "Imputed"
    /\ UNCHANGED <<model, plot_forecasts, analyze_residuals, mae, mase,
                   y_pred, residuals, err, X, test_start, X_train, X_test>>
    /\ UNCHANGED evalVars

\* impute the missing values in y with the ffill strategy
Impute ==
    /\ pc = "SplitX"
    /\ y_train' = Imputer(y_train)
    /\ y_test' = Imputer(y_test)
    /\ pc' = "Imputed"
    /\ UNCHANGED <<model, data, plot_forecasts, analyze_residuals, mae, mase,
                   y_pred, residuals, err, X, test_start, X_train, X_test>>
    /\ UNCHANGED evalVars

\* train the model and predict the test index
TrainPredict ==
    /\ pc = "Imputed"
    /\ IF FitFails(model, y_train)
       THEN /\ pc' = "Error"
            /\ err' = "MissingValueError"
            /\ UNCHANGED y_pred
       ELSE /\ \E choice \in Choices(model, Len(y_test)) :
                 y_pred' = [i \in 1..Len(y_test) |->
                              [idx |-> test_start + i - 1,
                               val |-> Forecast(model, y_train, Len(y_test), choice)[i]]]
            /\ pc' = "Predicted"
            /\ UNCHANGED err
    /\ UNCHANGED <<model, data, plot_forecasts, analyze_residuals, mae, mase,
                   residuals, X, test_start, y_train, y_test, X_train, X_test>>
    /\ UNCHANGED evalVars

ValuesOf(yp) == [i \in 1..Len(yp) |-> yp[i].val]

\* MAE and MASE of the forecast, printed; then the forecast plot
Score ==
    /\ pc = "Predicted"
    /\ IF HasMissing(y_test)
       THEN \* the metric functions reject missing actual values
            /\ pc' = "Error"
            /\ err' = "ValueError"
            /\ UNCHANGED <<mae, mase, y_test>>
       ELSE /\ mae' = MeanAbsoluteError(y_test, ValuesOf(y_pred))
            /\ mase' = MeanAbsoluteScaledError(y_test, ValuesOf(y_pred), y_train)
            /\ y_test' = IF plot_forecasts THEN AtIndex(data, y_pred) ELSE y_test
            /\ pc' = "Aggregating"
            /\ UNCHANGED err
    /\ UNCHANGED <<model, data, plot_forecasts, analyze_residuals, y_pred,
                   residuals, X, test_start, y_train, X_train, X_test>>
    /\ UNCHANGED evalVars

\* residuals y - y_hat of the forecast
AnalyzePastaResiduals ==
    /\ pc = "Aggregating"
    /\ analyze_residuals
    /\ residuals' = [i \in 1..Len(y_pred) |->
                        IF y_test[i] = NaN THEN NaNq
                        ELSE RSub(RInt(y_test[i]), y_pred[i].val)]
    /\ pc' = "ResidualAnalysis"
    /\ UNCHANGED <<model, data, plot_forecasts, analyze_residuals, mae, mase,
                   y_pred, err, X, test_start, y_train, y_test, X_train, X_test>>
    /\ UNCHANGED evalVars

NextPasta ==
    \/ ImputeExogenous
    \/ SplitY
    \/ SplitX
    \/ Impute
    \/ TrainPredict
    \/ Score
    \/ AnalyzePastaResiduals
    \/ Return

SpecPasta == InitPasta /\ [][NextPasta]_vars

-----------------------------------------------------------------------------
(* Properties of evaluate_model *)

Max(a, b) == IF a > b THEN a ELSE b

\* floor(0.8 * N)
Floor08(N) == (8 * N) \div 10

N == Len(data)

Split == pc # "Initialized"
Aggregated == pc \in {"Aggregating", "ResidualAnalysis", "Done"}

\* every fold trains on a range that ends before its test range starts
TrainBeforeTest ==
    \A k \in 1..Len(folds) :
        /\ 1 <= folds[k].test_lo
        /\ folds[k].train_end < folds[k].test_lo
        /\ folds[k].test_lo <= folds[k].test_hi

\* C1 as stated: the splitter yields floor(max(0, N - floor(0.8N) - H)) + 1
\* folds for every N >= 1 and H >= 1, each with train before test.
C1_FoldCountAsStated ==
    Split => /\ Len(folds) = Max(0, N - Floor08(N) - horizon) + 1
             /\ TrainBeforeTest

\* C1 amended: the splitter yields N - floor(0.8N) - H + 1 folds when the
\* horizon fits into the last 20% of the series (H <= N - floor(0.8N)) and
\* no fold at all otherwise; in every fold the train range ends before the
\* test range starts.
C1_FoldCount ==
    Split => /\ Len(folds) = Max(0, N - Floor08(N) - horizon + 1)
             /\ TrainBeforeTest

C1_Witness ==
    /\ pc = "Splitting"
    /\ Len(folds) = 3
    /\ N = 11

StrictlyIncreasing(s) == \A i \in 1..(Len(s) - 1) : s[i] < s[i + 1]

IndexOf(yp) == [i \in 1..Len(yp) |-> yp[i].idx]

\* C2: after all folds have run, the concatenated predictions have a
\* strictly increasing time index in which no value occurs twice.
C2_ConcatIndexIncreasing ==
    Aggregated => /\ StrictlyIncreasing(IndexOf(y_pred))
                  /\ \A i, j \in 1..Len(y_pred) :
                        i # j => y_pred[i].idx # y_pred[j].idx

\* C3: fold k (k = 0, 1, ...) trains on 1..floor(0.8N)+k and tests on the H
\* points right after it, all inside the series; the folds stop at the first
\* k whose test window would overrun the series, and evaluate() runs them in
\* that order.
C3_ExpandingWindow ==
    Split =>
        /\ \A k \in 1..Len(folds) :
              /\ folds[k].train_end = Floor08(N) + (k - 1)
              /\ folds[k].test_lo = folds[k].train_end + 1
              /\ folds[k].test_hi = folds[k].train_end + horizon
              /\ folds[k].test_hi <= N
        /\ Floor08(N) + Len(folds) + horizon > N
        /\ \A k \in 1..Len(results) :
              /\ results[k].train_end = folds[k].train_end
              /\ results[k].failed \/ Len(results[k].y_pred) = horizon

C3_Witness ==
    /\ pc = "PerFoldFitPredict"
    /\ horizon = 2
    /\ Len(folds) = 2
    /\ Len(results) = 2

\* C4: on 1, 2, ..., 10 with horizon 1 the last-value baseline runs two
\* folds: train 1..8 predicting 8 for the actual 9, train 1..9 predicting 9
\* for the actual 10, absolute error 1 each, MAE 1.
C4_Scenario ==
    (data = ScenarioSeries /\ horizon = 1 /\ model = "last" /\ Aggregated) =>
        /\ Len(folds) = 2
        /\ Len(results) = 2
        /\ TrainOf(data, folds[1]) = <<1, 2, 3, 4, 5, 6, 7, 8>>
        /\ results[1].y_pred = <<[idx |-> 9, val |-> <<8, 1>>]>>
        /\ data[9] = 9
        /\ results[1].mae = <<1, 1>>
        /\ TrainOf(data, folds[2]) = <<1, 2, 3, 4, 5, 6, 7, 8, 9>>
        /\ results[2].y_pred = <<[idx |-> 10, val |-> <<9, 1>>]>>
        /\ data[10] = 10
        /\ results[2].mae = <<1, 1>>
        /\ mae = <<1, 1>>

C4_Witness ==
    /\ data = ScenarioSeries
    /\ horizon = 1
    /\ model = "last"
    /\ pc = "Done"

AllMatch ==
    \A i \in 1..Len(y_pred) : y_pred[i].val = RInt(data[y_pred[i].idx])

\* C5: the MAE of a finished evaluation is not negative, and it is zero
\* exactly when every prediction of every fold equals the actual value.
C5_MAE ==
    Aggregated => /\ ~RLess(mae, Zero)
                  /\ mae # NaNq
                  /\ (mae = Zero <=> AllMatch)

C5_Witness ==
    /\ pc = "Aggregating"
    /\ model = "opaque"
    /\ Len(results) = 2
    /\ horizon = 2
    /\ mae = Zero

ScaleSeries(d, c) == [i \in 1..Len(d) |-> d[i] * c]

\* the MASE of the same run with the series and all predictions times c
ScaledRunMASE(c) ==
    SMean([k \in 1..Len(results) |->
             Row(ScaleSeries(data, c), folds[k],
                 [i \in 1..Len(results[k].y_pred) |->
                     RScale(results[k].y_pred[i].val, c)]).mase])

PositiveScales ==
    \A k \in 1..Len(results) :
        NaiveScale(TrainOf(data, folds[k])) \notin {Zero, NaNq}

\* C6 as stated: for every series, multiplying the series and the
\* predictions by a positive constant leaves MASE unchanged.
C6_ScaleInvariantAsStated ==
    Aggregated => \A c \in 1..MaxScale : ScaledRunMASE(c) = mase

\* C6 amended: when every fold's training window has a positive mean
\* absolute first difference (it is not constant), multiplying the series
\* and the predictions by a positive constant leaves MASE unchanged.
C6_ScaleInvariant ==
    (Aggregated /\ PositiveScales) =>
        \A c \in 1..MaxScale : ScaledRunMASE(c) = mase

C6_Witness ==
    /\ pc = "Aggregating"
    /\ PositiveScales
    /\ Len(results) = 2
    /\ mase \notin {SZero, SNaN}

-----------------------------------------------------------------------------
(* Properties of the imputation and of evaluate_pasta_sales_model *)

RawTrain == SubSeq(data, 1, test_start - 1)
RawTest == SubSeq(data, test_start, Len(data))

\* the parts are as the imputation step left them
JustImputed == pc \in {"Imputed", "Predicted"}

\* C7: forward fill returns a series without missing values unchanged, and
\* filling a filled series again changes nothing.
C7_FfillIdempotent ==
    JustImputed =>
        /\ ~HasMissing(RawTrain) => y_train = RawTrain
        /\ ~HasMissing(RawTest) => y_test = RawTest
        /\ FFill(y_train) = y_train
        /\ FFill(y_test) = y_test

C7_Witness ==
    /\ pc = "Imputed"
    /\ RawTrain = <<1, NaN, NaN>>
    /\ y_train = <<1, 1, 1>>
    /\ ~HasMissing(RawTest)

\* the last observation of s before position i (there is one)
ObservedBefore(s, i) == { j \in 1..(i - 1) : s[j] # NaN }
LastObservedBefore(s, i) ==
    s[CHOOSE j \in ObservedBefore(s, i) : \A k \in ObservedBefore(s, i) : k <= j]

ObservedKept(raw, out) ==
    /\ Len(out) = Len(raw)
    /\ \A i \in 1..Len(raw) : raw[i] # NaN => out[i] = raw[i]

GapsCopyLast(raw, out) ==
    \A i \in 1..Len(raw) :
        (raw[i] = NaN /\ ObservedBefore(raw, i) # {}) =>
            out[i] = LastObservedBefore(raw, i)

C9_ZeroFill ==
    pc # "Exercise8" =>
        /\ Len(X) = Len(num_promos)
        /\ \A i \in 1..Len(X) :
              /\ num_promos[i] = NaN => X[i] = 0
              /\ num_promos[i] # NaN => X[i] = num_promos[i]
        /\ num_promos = <<NaN, 1, NaN, 0>> => X = <<0, 1, 0, 0>>

C9_Witness ==
    /\ pc = "Initialized"
    /\ num_promos = <<NaN, 1, NaN, 0>>
    /\ X = <<0, 1, 0, 0>>

SplitMade == pc \notin {"Exercise8", "Initialized"}

\* C10 as stated: the target series is imputed before it is split, so no
\* train or test part exists that still has a missing value.
C10_ImputeBeforeSplitAsStated ==
    SplitMade => ~HasMissing(y_train) /\ ~HasMissing(y_test)

\* C10 amended: evaluate_pasta_sales_model splits the series first and
\* imputes the two parts afterwards, strictly before the model is trained:
\* right after the split the parts are the raw ones, and whenever a forecast
\* exists the training part is the forward-filled one.
C10_ImputeBeforeTrain ==
    /\ pc \in {"SplitY", "SplitX"} => y_train = RawTrain /\ y_test = RawTest
    /\ JustImputed => y_train = FFill(RawTrain) /\ y_test = FFill(RawTest)
    /\ y_pred # <<>> => y_train = FFill(RawTrain)

C10_Witness ==
    /\ pc = "Predicted"
    /\ HasMissing(RawTrain)
    /\ ~HasMissing(y_train)
    /\ y_pred # <<>>

-----------------------------------------------------------------------------
(* Properties of the run as a whole *)

FitErrors == {"ConvergenceError", "InsufficientDataError"}

\* C11: when the fit of a fold fails, the evaluation ends in an error that
\* names the fit failure, no later fold is run as if nothing had happened,
\* and no aggregate MAE or MASE is reported.
C11_FitFailureSurfaced ==
    AnyFailed(results) =>
        /\ \A k \in 1..(Len(results) - 1) : ~results[k].failed
        /\ pc \in {"PerFoldFitPredict", "Error"}
        /\ pc = "Error" => err \in FitErrors
        /\ mae = NaNq /\ mase = SNaN

\* the place of a phase in the pipeline
Rank(p) ==
    CASE p = "Initialized"       -> 0
      [] p = "Splitting"         -> 1
      [] p = "PerFoldFitPredict" -> 2
      [] p = "Aggregating"       -> 3
      [] p = "ResidualAnalysis"  -> 4
      [] p = "Done"              -> 5
      [] OTHER                   -> 6

\* one step of a run, unless it ends the run with an exception
ForwardStep ==
    /\ Rank(pc) <= Rank(pc')
    /\ Rank(pc) = Rank(pc') => pc = "PerFoldFitPredict"
    /\ pc' = "Splitting" => pc = "Initialized"
    /\ pc' = "PerFoldFitPredict" =>
          /\ pc \in {"Splitting", "PerFoldFitPredict"}
          /\ Len(results') = Len(results) + 1
          /\ Len(results') <= Len(folds)
    /\ pc' = "Aggregating" =>
          /\ pc \in {"Splitting", "PerFoldFitPredict"}
          /\ Len(results') = Len(folds')
    /\ pc' = "ResidualAnalysis" => pc = "Aggregating" /\ analyze_residuals
    /\ pc' = "Done" =>
          \/ pc = "ResidualAnalysis"
          \/ pc = "Aggregating" /\ ~analyze_residuals

\* C12: a run of evaluate_model takes its phases in the order Initialized,
\* Splitting, PerFoldFitPredict (one step per fold), Aggregating,
\* ResidualAnalysis (only with analyze_residuals), Done; it never goes back,
\* and no step follows Done (or the exception that ended the run).
C12_PhaseOrder ==
    [][ /\ pc \notin {"Done", "Error"}
        /\ pc' = "Error" \/ ForwardStep ]_vars

C12_Witness ==
    /\ pc = "Done"
    /\ analyze_residuals
    /\ residuals # <<>>
    /\ Len(results) = 3

\* the evaluation has been called: Exercise 8 has made X
Called == pc # "Exercise8"

\* C14: no step of the evaluation changes the series it was given, the
\* exogenous frame X or the column X was made from; at the end they are what
\* they were at the call.
C14_InputsUnchanged ==
    [][ Called => /\ data' = data
                  /\ X' = X
                  /\ num_promos' = num_promos ]_vars

C14_Witness ==
    /\ pc = "Done"
    /\ HasMissing(data)
    /\ y_train # SubSeq(data, 1, test_start - 1)
    /\ X_train # <<>>
    /\ residuals # <<>>

\* part holds the observations of data at the positions lo, lo + 1, ..., hi
Covers(part, lo, hi) ==
    /\ Len(part) = hi - lo + 1
    /\ \A i \in 1..Len(part) :
          data[lo + i - 1] # NaN => part[i] = data[lo + i - 1]

XSplitMade == pc \notin {"Exercise8", "Initialized", "SplitY"}

\* C15: once split, y_train holds the observations before the test start and
\* y_test those from it on, one after the other the whole series, and stays
\* so; X, when it is passed, is cut at the same place, X_train and X_test as
\* long as y_train and y_test, and both are None when it is not passed.
C15_SingleTemporalSplit ==
    /\ SplitMade =>
          /\ Covers(y_train, 1, test_start - 1)
          /\ Covers(y_test, test_start, Len(data))
          /\ Len(y_train) + Len(y_test) = Len(data)
    /\ pc \in {"SplitY", "SplitX"} => y_train \o y_test = data
    /\ XSplitMade =>
          IF PassesX(model)
          THEN /\ X_train \o X_test = X
               /\ Len(X_train) = Len(y_train)
               /\ Len(X_test) = Len(y_test)
          ELSE X_train = <<>> /\ X_test = <<>>

C15_Witness ==
    /\ pc = "SplitX"
    /\ PassesX(model)
    /\ Len(y_train) = 2
    /\ Len(X_test) = 2
    /\ HasMissing(y_test)

\* the predictions of all the folds that have any, pooled in fold order
Pooled ==
    Concat(Column(SelectSeq(results, LAMBDA r : ~r.failed), "y_pred"))

\* the mean absolute error taken once over the pooled predictions
PooledMAE ==
    IF Pooled = <<>> THEN NaNq
    ELSE MeanAbsoluteError(AtIndex(data, Pooled), ValuesOf(Pooled))

\* evaluate_model has printed its metrics
Printed == pc \in {"Aggregating", "ResidualAnalysis", "Done", "Error"}

\* C16: the MAE that evaluate_model prints, the average of the rows' MAE,
\* equals the MAE taken once over the predictions of all folds pooled; every
\* fold that has predictions has exactly H of them.
C16_MeanOfFoldMAE ==
    /\ Printed => mae = PooledMAE
    /\ Aggregated => y_pred = Pooled
    /\ \A k \in 1..Len(results) :
          ~results[k].failed => Len(results[k].y_pred) = horizon

C16_Witness ==
    /\ pc = "Aggregating"
    /\ horizon = 2
    /\ Len(results) = 2
    /\ results[1].mae # results[2].mae
    /\ mae # Zero

\* the actual values the forecast was scored against: the series at the
\* forecast's index, in evaluate_pasta_sales_model the imputed test part
Actuals ==
    IF test_start = 0 THEN AtIndex(data, y_pred) ELSE Imputer(RawTest)

Analyzed == analyze_residuals /\ pc \in {"ResidualAnalysis", "Done"}

\* C17: the residual analysis is the same whatever plot_forecasts says: it
\* always finds the actual values it needs, and its residuals are the scored
\* actual values minus the forecast, with the plot or without it.
C17_ResidualsIndependentOfPlot ==
    /\ err # "NameError"
    /\ Analyzed =>
          residuals = [i \in 1..Len(y_pred) |->
                          RSub(RInt(Actuals[i]), y_pred[i].val)]

=============================================================================
